---- MODULE Spec2Model ----
(***************************************************************************)
(* The pull-request analysis pipeline of src/tasks.py and src/app.py: a    *)
(* four-node LangGraph (fetch_diff, split_by_file, process_files,          *)
(* aggregate_summaries) threaded over one PRState dictionary.              *)
(*                                                                         *)
(* Text is a sequence of tokens.  The tokens are the literals the regular  *)
(* expression of split_by_file and the suffix test of is_apex_file look    *)
(* for, the two whitespace characters str.strip() removes, and one         *)
(* ordinary character; no literal can arise across a token boundary, so    *)
(* matching on tokens is matching on characters.                           *)
(***************************************************************************)
EXTENDS Integers, Sequences, FiniteSets, TLC

VARIABLES variant, pc, state, http, calls, executed, error, result

vars == <<variant, pc, state, http, calls, executed, error, result>>

-----------------------------------------------------------------------------
(* Bounds of the model *)

\* the raw diff has at most MaxLines lines
MaxLines == 3

\* at most MaxFailures backend calls fail within one node
MaxFailures == 1

-----------------------------------------------------------------------------
(* Tokens *)

HDR == "diff --git a/"
BSEP == " b/"
NL == "\n"
SP == " "
CLS == ".cls"
TRIGGER == ".trigger"
CH == "x"

\* what is left of " b/" once str.strip() has removed its leading blank
BSEP_STRIPPED == "b/"

IsSpace(t) == t \in {SP, NL}

-----------------------------------------------------------------------------
(* str.strip(), str.endswith(), str.join() *)

RECURSIVE LStrip(_)
LStrip(s) ==
    IF s = <<>> THEN <<>>
    ELSE IF IsSpace(Head(s)) THEN LStrip(Tail(s))
    ELSE IF Head(s) = BSEP THEN <<BSEP_STRIPPED>> \o Tail(s)
    ELSE s

RECURSIVE RStrip(_)
RStrip(s) ==
    IF s = <<>> THEN <<>>
    ELSE IF IsSpace(s[Len(s)]) THEN RStrip(SubSeq(s, 1, Len(s) - 1))
    ELSE s

Strip(s) == RStrip(LStrip(s))

EndsWith(s, suffix) == Len(s) >= 1 /\ s[Len(s)] = suffix

RECURSIVE Join(_, _)
Join(sep, parts) ==
    IF parts = <<>> THEN <<>>
    ELSE IF Len(parts) = 1 THEN parts[1]
    ELSE parts[1] \o sep \o Join(sep, Tail(parts))

-----------------------------------------------------------------------------
(* The raw diff texts the network may deliver *)

LineKinds ==
    { <<CH>>,                                        \* a line of text
      <<HDR, CH, BSEP, CH>>,                         \* diff --git a/x b/x
      <<HDR, CH, CLS, BSEP, CH, CLS>>,               \* diff --git a/x.cls b/x.cls
      <<HDR, CH, TRIGGER, BSEP, CH, TRIGGER>>,       \* diff --git a/x.trigger b/x.trigger
      <<HDR, CH, CLS, SP, BSEP, CH, CLS>>,           \* diff --git a/x.cls  b/x.cls
      <<HDR, CH>> }                                  \* diff --git a/x   (no " b/")

LineSeqs == UNION { [1..n -> LineKinds] : n \in 0..MaxLines }

\* the text whose lines are ls, with or without the newline that ends the
\* last line
TextOf(ls, final) == Join(<<NL>>, ls) \o (IF final /\ ls # <<>> THEN <<NL>> ELSE <<>>)

DiffTexts == { TextOf(ls, final) : ls \in LineSeqs, final \in BOOLEAN }

PR_URL == <<"https://github.com/o/r/pull/1">>

\* bodies a server sends with a non-success status
ErrorBodies == { <<CH>>, TextOf(<<<<HDR, CH, CLS, BSEP, CH, CLS>>, <<CH>>>>, TRUE) }

HttpOutcomes ==
    [kind : {"ok"}, body : DiffTexts]
      \cup [kind : {"status"}, body : ErrorBodies]
      \cup [kind : {"transport"}, body : {<<>>}]

-----------------------------------------------------------------------------
(* The PRState dictionary *)

\* {**state, key: value, ...}
Merge(old, upd) == upd @@ old

Has(key) == key \in DOMAIN state

-----------------------------------------------------------------------------
(* is_apex_file *)

is_apex_file(filename) == EndsWith(filename, CLS) \/ EndsWith(filename, TRIGGER)

-----------------------------------------------------------------------------
(* re.compile(r'diff --git a/(.*?) b/.*?\n(.*?)(?=\ndiff --git a/|\Z)',     *)
(*            re.DOTALL).findall(text)                                      *)

\* (?=\ndiff --git a/|\Z) at position k (1-based, Len+1 is the end of text)
Lookahead(s, k) ==
    \/ k = Len(s) + 1
    \/ k + 1 <= Len(s) /\ s[k] = NL /\ s[k + 1] = HDR

\* "\n" positions after position e1 that can end the header's ".*?"
NewlinesAfter(s, e1) == { e2 \in (e1 + 1)..Len(s) : s[e2] = NL }

\* " b/" positions after p from which the rest of the pattern can match
SeparatorsAfter(s, p) ==
    { e1 \in (p + 1)..Len(s) : s[e1] = BSEP /\ NewlinesAfter(s, e1) # {} }

Min(S) == CHOOSE m \in S : \A n \in S : m <= n

\* the pattern matches at p: the literal is there and the lazy groups can
\* be extended (over newlines too, re.DOTALL) until the rest matches
MatchesAt(s, p) == s[p] = HDR /\ SeparatorsAfter(s, p) # {}

\* the match at p: every lazy group takes the shortest extent that lets
\* the rest of the pattern match
MatchAt(s, p) ==
    LET e1 == Min(SeparatorsAfter(s, p))
        e2 == Min(NewlinesAfter(s, e1))
        e3 == Min({ k \in (e2 + 1)..(Len(s) + 1) : Lookahead(s, k) })
    IN  [filename |-> SubSeq(s, p + 1, e1 - 1),
         file_diff |-> SubSeq(s, e2 + 1, e3 - 1),
         end |-> e3]

\* findall: the leftmost match at or after pos, then on from its end
RECURSIVE FindAll(_, _)
FindAll(s, pos) ==
    LET starts == { p \in pos..Len(s) : MatchesAt(s, p) }
    IN  IF starts = {} THEN <<>>
        ELSE LET m == MatchAt(s, Min(starts))
             IN  <<[filename |-> m.filename, file_diff |-> m.file_diff]>>
                   \o FindAll(s, m.end)

\* the FileResult split_by_file appends for one match
NewFileResult(m) ==
    [filename |-> Strip(m.filename),
     diff |-> Strip(m.file_diff),
     is_apex |-> is_apex_file(m.filename),
     explanation |-> <<>>,
     review_comments |-> <<>>,
     business_summary |-> <<>>]

split_by_file(st) ==
    LET matches == FindAll(st["diff"], 1)
        files == [k \in 1..Len(matches) |-> NewFileResult(matches[k])]
    IN  Merge(st, "files" :> files)

-----------------------------------------------------------------------------
(* The summarization backend *)

\* str(e) of the exception a failed backend call raises
ERR == "backend unavailable"

ERROR_PREFIX == "Error: "

\* the text the backend returns for a prompt (a deterministic backend;
\* the surrounding whitespace is what .strip() is there to remove)
llm_content(prompt) == <<SP, "reply(">> \o prompt \o <<")", NL>>

\* call_llm_safe returning str(e) without the "Error: " prefix
call_llm_safe_unprefixed(prompt, fails) ==
    IF fails THEN <<ERR>> ELSE Strip(llm_content(prompt))

\* tasks.py: the failure is caught and turned into diagnostic text
call_llm_safe(prompt, fails) ==
    IF fails THEN <<ERROR_PREFIX, ERR>> ELSE Strip(llm_content(prompt))

\* app.py: openai.chat.completions.create(...).choices[0].message.content
\* .strip(); nothing catches the exception of a failed call
chat_completion(prompt, fails) ==
    [raised |-> fails,
     text |-> IF fails THEN <<>> ELSE Strip(llm_content(prompt))]

\* one entry of the log of backend calls
Call(node, i, kind, prompt, ok) ==
    [node |-> node, file |-> i, kind |-> kind, prompt |-> prompt, ok |-> ok]

Kinds == {"explanation", "review", "business"}

RECURSIVE Flatten(_)
Flatten(ss) == IF ss = <<>> THEN <<>> ELSE Head(ss) \o Flatten(Tail(ss))

-----------------------------------------------------------------------------
(* process_files of src/tasks.py *)

\* the loop body asking for a review of every file, is_apex or not
tasks_enrich_reviews_all(file, i, fails) ==
    LET diff == file.diff
        p1 == <<"Explain the changes:\n">> \o diff
        p2 == <<"Review this Apex diff:\n">> \o diff
        p3 == <<"Business summary of changes:\n">> \o diff
    IN  [file |-> [file EXCEPT
                     !.explanation = call_llm_safe(p1, "explanation" \in fails),
                     !.review_comments = call_llm_safe(p2, "review" \in fails),
                     !.business_summary = call_llm_safe(p3, "business" \in fails)],
         calls |-> <<Call("process_files", i, "explanation", p1,
                          "explanation" \notin fails),
                     Call("process_files", i, "review", p2, "review" \notin fails),
                     Call("process_files", i, "business", p3,
                          "business" \notin fails)>>,
         raised |-> FALSE]

\* the body of the loop for the i-th file; fails: the kinds of call that
\* fail for this file
tasks_enrich(file, i, fails) ==
    LET diff == file.diff
        p1 == <<"Explain the changes:\n">> \o diff
        p2 == <<"Review this Apex diff:\n">> \o diff
        p3 == <<"Business summary of changes:\n">> \o diff
        explanation == call_llm_safe(p1, "explanation" \in fails)
        review_comments ==
            IF file.is_apex THEN call_llm_safe(p2, "review" \in fails) ELSE <<>>
        business_summary == call_llm_safe(p3, "business" \in fails)
    IN  [file |-> [file EXCEPT !.explanation = explanation,
                               !.review_comments = review_comments,
                               !.business_summary = business_summary],
         calls |-> <<Call("process_files", i, "explanation", p1,
                          "explanation" \notin fails)>>
                   \o (IF file.is_apex
                       THEN <<Call("process_files", i, "review", p2,
                                   "review" \notin fails)>>
                       ELSE <<>>)
                   \o <<Call("process_files", i, "business", p3,
                             "business" \notin fails)>>,
         raised |-> FALSE]

\* fails: the (file index, kind) pairs whose backend call fails
tasks_process_files(st, fails) ==
    LET files == st["files"]
        r == [i \in 1..Len(files) |->
                tasks_enrich(files[i], i, { k \in Kinds : <<i, k>> \in fails })]
        updated_files == [i \in 1..Len(files) |-> r[i].file]
    IN  [state |-> Merge(st, "files" :> updated_files),
         calls |-> Flatten([i \in 1..Len(files) |-> r[i].calls]),
         raised |-> FALSE]

-----------------------------------------------------------------------------
(* process_files of src/app.py *)

app_enrich(file, i, fails) ==
    LET diff == file.diff
        p1 == <<"Explain in detail the changes made in this file and why they might have been made.\n\n">> \o diff
        p2 == <<"Review the following Apex code diff for adherence to Salesforce best practices.\n\n">> \o diff
        p3 == <<"Explain what was changed in this file in plain language for business stakeholders. Avoid technical jargon.\n\n">> \o diff
        c1 == chat_completion(p1, "explanation" \in fails)
        c2 == chat_completion(p2, "review" \in fails)
        c3 == chat_completion(p3, "business" \in fails)
        k1 == <<Call("process_files", i, "explanation", p1, ~c1.raised)>>
        k2 == IF file.is_apex
              THEN <<Call("process_files", i, "review", p2, ~c2.raised)>>
              ELSE <<>>
        k3 == <<Call("process_files", i, "business", p3, ~c3.raised)>>
    IN  IF c1.raised
        THEN [file |-> file, calls |-> k1, raised |-> TRUE]
        ELSE IF file.is_apex /\ c2.raised
        THEN [file |-> file, calls |-> k1 \o k2, raised |-> TRUE]
        ELSE IF c3.raised
        THEN [file |-> file, calls |-> k1 \o k2 \o k3, raised |-> TRUE]
        ELSE [file |-> [file EXCEPT
                          !.explanation = c1.text,
                          !.review_comments =
                              IF file.is_apex THEN c2.text ELSE <<>>,
                          !.business_summary = c3.text],
              calls |-> k1 \o k2 \o k3,
              raised |-> FALSE]

\* process_files putting the updated records together in reverse order
app_process_files_reversed(st, fails) ==
    LET files == st["files"]
        n == Len(files)
        r == [i \in 1..n |->
                app_enrich(files[i], i, { k \in Kinds : <<i, k>> \in fails })]
        raising == { i \in 1..n : r[i].raised }
        last == IF raising = {} THEN n ELSE Min(raising)
        updated_files == [i \in 1..n |-> r[n + 1 - i].file]
    IN  [state |-> IF raising = {} THEN Merge(st, "files" :> updated_files)
                   ELSE st,
         calls |-> Flatten([i \in 1..last |-> r[i].calls]),
         raised |-> raising # {}]

\* the loop stops at the first file whose enrichment raises; the exception
\* leaves the node without a new state
app_process_files(st, fails) ==
    LET files == st["files"]
        r == [i \in 1..Len(files) |->
                app_enrich(files[i], i, { k \in Kinds : <<i, k>> \in fails })]
        raising == { i \in 1..Len(files) : r[i].raised }
        last == IF raising = {} THEN Len(files) ELSE Min(raising)
        updated_files == [i \in 1..Len(files) |-> r[i].file]
    IN  [state |-> IF raising = {} THEN Merge(st, "files" :> updated_files)
                   ELSE st,
         calls |-> Flatten([i \in 1..last |-> r[i].calls]),
         raised |-> raising # {}]

-----------------------------------------------------------------------------
(* aggregate_summaries *)

ExplanationBlock(f) ==
    <<"Changes in ">> \o f.filename \o <<":\n">> \o f.explanation

JoinedExplanations(files) ==
    Join(<<"\n\n">>, [i \in 1..Len(files) |-> ExplanationBlock(files[i])])

JoinedBusinessSummaries(files) ==
    Join(<<"\n\n">>, [i \in 1..Len(files) |-> files[i].business_summary])

\* fails: the subset of {"dev", "business"} whose backend call fails
tasks_aggregate_summaries(st, fails) ==
    LET p1 == JoinedExplanations(st["files"])
        p2 == JoinedBusinessSummaries(st["files"])
        dev_summary == call_llm_safe(p1, "dev" \in fails)
        business_summary == call_llm_safe(p2, "business" \in fails)
    IN  [state |-> Merge(st, "dev_summary" :> dev_summary
                             @@ "business_summary" :> business_summary),
         calls |-> <<Call("aggregate_summaries", 0, "dev", p1, "dev" \notin fails),
                     Call("aggregate_summaries", 0, "business", p2,
                          "business" \notin fails)>>,
         raised |-> FALSE]

app_aggregate_summaries(st, fails) ==
    LET dev_summary_prompt == JoinedExplanations(st["files"])
        business_prompt == JoinedBusinessSummaries(st["files"])
        p1 == <<"Summarize this PR for developers:\n\n">> \o dev_summary_prompt
        p2 == <<"Summarize this PR for business stakeholders in non-technical language:\n\n">>
                \o business_prompt
        c1 == chat_completion(p1, "dev" \in fails)
        c2 == chat_completion(p2, "business" \in fails)
        k1 == <<Call("aggregate_summaries", 0, "dev", p1, ~c1.raised)>>
        k2 == <<Call("aggregate_summaries", 0, "business", p2, ~c2.raised)>>
    IN  IF c1.raised THEN [state |-> st, calls |-> k1, raised |-> TRUE]
        ELSE IF c2.raised THEN [state |-> st, calls |-> k1 \o k2, raised |-> TRUE]
        ELSE [state |-> Merge(st, "dev_summary" :> c1.text
                                  @@ "business_summary" :> c2.text),
              calls |-> k1 \o k2,
              raised |-> FALSE]

-----------------------------------------------------------------------------
(* fetch_pr_diff: requests.get(state["pr_url"] + ".diff").text; http is what *)
(* the network answers to that one request                               *)

\* requests.get raises on a transport error only; a response with a
\* non-success status is returned like any other and .text is its body
fetch_pr_diff(st, response) ==
    [state |-> IF response.kind = "transport" THEN st
               ELSE Merge(st, "diff" :> response.body),
     raised |-> response.kind = "transport"]

-----------------------------------------------------------------------------
(* The graph *)

Nodes == {"fetch_diff", "split_by_file", "process_files", "aggregate_summaries"}

EntryPoint == "fetch_diff"

\* the graph with process_files wired to END
Edge_skipping_aggregate(node) ==
    CASE node = "fetch_diff" -> "split_by_file"
      [] node = "split_by_file" -> "process_files"
      [] node = "process_files" -> "END"
      [] node = "aggregate_summaries" -> "END"

\* builder.add_edge
Edge(node) ==
    CASE node = "fetch_diff" -> "split_by_file"
      [] node = "split_by_file" -> "process_files"
      [] node = "process_files" -> "aggregate_summaries"
      [] node = "aggregate_summaries" -> "END"

FailureSets(S) == { F \in SUBSET S : Cardinality(F) <= MaxFailures }

Init ==
    /\ variant \in {"tasks", "app"}
    /\ pc = EntryPoint
    /\ state = ("pr_url" :> PR_URL)
    /\ http \in HttpOutcomes
    /\ calls = <<>>
    /\ executed = <<>>
    /\ error = "none"
    /\ result = [returned |-> FALSE]

\* what every node does with the outcome of its function: the new state
\* and the next node, or the exception that ends graph.invoke
Finish(node, out) ==
    /\ executed' = Append(executed, node)
    /\ state' = out.state
    /\ pc' = IF out.raised THEN "aborted" ELSE Edge(node)
    /\ error' = IF out.raised THEN node ELSE error

FetchDiff ==
    /\ pc = "fetch_diff"
    /\ Finish("fetch_diff", fetch_pr_diff(state, http))
    /\ UNCHANGED <<variant, http, calls, result>>

SplitByFile ==
    /\ pc = "split_by_file"
    /\ Finish("split_by_file", [state |-> split_by_file(state), raised |-> FALSE])
    /\ UNCHANGED <<variant, http, calls, result>>

ProcessFiles ==
    /\ pc = "process_files"
    /\ \E fails \in FailureSets((1..Len(state["files"])) \X Kinds) :
          LET out == IF variant = "tasks" THEN tasks_process_files(state, fails)
                     ELSE app_process_files(state, fails)
          IN  /\ Finish("process_files", out)
              /\ calls' = calls \o out.calls
    /\ UNCHANGED <<variant, http, result>>

AggregateSummaries ==
    /\ pc = "aggregate_summaries"
    /\ \E fails \in FailureSets({"dev", "business"}) :
          LET out == IF variant = "tasks" THEN tasks_aggregate_summaries(state, fails)
                     ELSE app_aggregate_summaries(state, fails)
          IN  /\ Finish("aggregate_summaries", out)
              /\ calls' = calls \o out.calls
    /\ UNCHANGED <<variant, http, result>>

\* analyze_pr_task returns three keys of the final state, analyze_pr all
analyze_pr_task(st) ==
    [dev_summary |-> st["dev_summary"],
     business_summary |-> st["business_summary"],
     files |-> st["files"]]

analyze_pr(st) == st

Return ==
    /\ pc = "END"
    /\ pc' = "returned"
    /\ result' = [returned |-> TRUE,
                  value |-> IF variant = "tasks" THEN analyze_pr_task(state)
                            ELSE analyze_pr(state)]
    /\ UNCHANGED <<variant, state, http, calls, executed, error>>

Next == FetchDiff \/ SplitByFile \/ ProcessFiles \/ AggregateSummaries \/ Return

Spec == Init /\ [][Next]_vars

-----------------------------------------------------------------------------
(* The header lines of a text, as the specification describes them *)

RECURSIVE LinesOf(_)
LinesOf(s) ==
    LET nls == { k \in 1..Len(s) : s[k] = NL }
    IN  IF nls = {} THEN <<s>>
        ELSE <<SubSeq(s, 1, Min(nls) - 1)>>
               \o LinesOf(SubSeq(s, Min(nls) + 1, Len(s)))

\* the lines that a newline ends
TerminatedLines(s) == SubSeq(LinesOf(s), 1, Len(LinesOf(s)) - 1)

Plain(s) == \A k \in 1..Len(s) : s[k] \notin {HDR, BSEP}

\* diff --git a/<path> b/<path>, both paths present
ValidHeaderLine(l) ==
    /\ Len(l) >= 4
    /\ l[1] = HDR
    /\ \E k \in 3..(Len(l) - 1) :
          /\ l[k] = BSEP
          /\ Plain(SubSeq(l, 2, k - 1))
          /\ Strip(SubSeq(l, 2, k - 1)) # <<>>
          /\ Plain(SubSeq(l, k + 1, Len(l)))

\* the a/ side of a valid header line
APath(l) == SubSeq(l, 2, Min({ k \in 1..Len(l) : l[k] = BSEP }) - 1)

HeaderLines(s) == SelectSeq(TerminatedLines(s), ValidHeaderLine)

\* the text from its first valid header line on (empty when it has none)
FromFirstHeader(s) ==
    LET ls == LinesOf(s)
        hs == { k \in 1..(Len(ls) - 1) : ValidHeaderLine(ls[k]) }
    IN  IF hs = {} THEN <<>> ELSE Join(<<NL>>, SubSeq(ls, Min(hs), Len(ls)))

Order == <<"fetch_diff", "split_by_file", "process_files", "aggregate_summaries">>

Ran(node) == \E k \in 1..Len(executed) : executed[k] = node

\* the node completed and handed a new state on
Completed(node) == Ran(node) /\ error # node

CallsOf(node) == SelectSeq(calls, LAMBDA c : c.node = node)

FailedCalls == { k \in 1..Len(calls) : ~calls[k].ok }

IsSuffix(s, t) == Len(s) <= Len(t) /\ s = SubSeq(t, Len(t) - Len(s) + 1, Len(t))

-----------------------------------------------------------------------------
(* Claims *)

\* C1: a text with N valid header lines is split into exactly N file
\* records, in the order of the header lines (the k-th filename ends with
\* the path of the k-th header line), each with a non-empty filename (N = 0
\* and headers with empty bodies included).
C1_OneRecordPerHeader ==
    Completed("split_by_file") =>
        LET hs == HeaderLines(state["diff"])
            files == state["files"]
        IN  /\ Len(files) = Len(hs)
            /\ \A k \in 1..Len(files) :
                  /\ IsSuffix(Strip(APath(hs[k])), files[k].filename)
                  /\ files[k].filename # <<>>

\* C2: a header line without " b/" gives no record and no part of any
\* filename (every filename is the path of one valid header line), and the
\* text before the first valid header line is in no record.
C2_MalformedHeaderSkipped ==
    Completed("split_by_file") =>
        LET text == state["diff"]
            hs == HeaderLines(text)
            files == state["files"]
        IN  /\ \A k \in 1..Len(files) :
                  \E j \in 1..Len(hs) : files[k].filename = Strip(APath(hs[j]))
            /\ files = split_by_file("diff" :> FromFirstHeader(text))["files"]

\* C3: from Partitioned on, is_apex of every record is true exactly when
\* the record's stored filename ends in .cls or .trigger.
C3_ApexIffSuffix ==
    Completed("split_by_file") =>
        \A k \in 1..Len(state["files"]) :
            state["files"][k].is_apex <=> is_apex_file(state["files"][k].filename)

\* what process_files of tasks.py gives when no backend call fails
EnrichedWithoutFailure == tasks_process_files(split_by_file(state), {}).state["files"]

OnlyExplanationFailed(i) ==
    /\ Cardinality(FailedCalls) = 1
    /\ \A k \in FailedCalls :
          /\ calls[k].node = "process_files"
          /\ calls[k].kind = "explanation"
          /\ calls[k].file = i

C4_Contained ==
    variant = "tasks" =>
        /\ Has("diff") => pc # "aborted"
        /\ Completed("process_files") =>
              \A i \in 1..Len(state["files"]) :
                  OnlyExplanationFailed(i) =>
                      LET files == state["files"]
                          clean == EnrichedWithoutFailure
                      IN  /\ Len(files) = Len(clean)
                          /\ Head(files[i].explanation) = ERROR_PREFIX
                          /\ files[i].explanation # clean[i].explanation
                          /\ [files[i] EXCEPT !.explanation = clean[i].explanation]
                               = clean[i]
                          /\ \A j \in 1..Len(files) : j # i => files[j] = clean[j]

\* a step of the tasks.py pipeline out of a node after the fetch goes to the
\* node's successor in the graph, and from aggregate_summaries to the end
C4_Advances ==
    (variant = "tasks" /\ pc \in Nodes \ {"fetch_diff"}) =>
        /\ pc' = Edge(pc)
        /\ pc = "aggregate_summaries" =>
              {"dev_summary", "business_summary"} \subseteq DOMAIN state'

\* C4: in the tasks.py pipeline, when the backend fails for one file's
\* explanation prompt only, that file's explanation is text prefixed
\* "Error: ", its other fields and all other files are what they are without
\* the failure, and the run, once the diff is fetched, is never aborted:
\* every node hands over to the next one until the end of the graph.
C4_ExplanationFailureContained == []C4_Contained /\ [][C4_Advances]_vars

C4_Witness ==
    /\ variant = "tasks"
    /\ pc = "returned"
    /\ Len(state["files"]) >= 2
    /\ OnlyExplanationFailed(1)
    /\ state["files"][1].is_apex

\* C5: in the app.py pipeline no run aborts after the fetch: only the
\* fetch's failure aborts a run.
C5_OnlyFetchAborts ==
    variant = "app" => (pc = "aborted" => error = "fetch_diff")

\* C6: when the retrieval ends in a transport error or a non-success
\* status, the run aborts in fetch_diff: no later node runs, files is not
\* populated and no backend call is made.
C6_FetchFailureAborts ==
    http.kind # "ok" =>
        /\ pc \in {"fetch_diff", "aborted"}
        /\ \A k \in 1..Len(executed) : executed[k] = "fetch_diff"
        /\ Len(executed) <= 1
        /\ ~Has("files")
        /\ calls = <<>>

\* C7: aggregate_summaries makes exactly two backend calls, the first with
\* the joined "Changes in <filename>:\n<explanation>" blocks as its whole
\* prompt, the second with the joined business summaries as its whole
\* prompt (also for no files).
C7_AggregatePrompts ==
    Ran("aggregate_summaries") =>
        LET cs == CallsOf("aggregate_summaries")
        IN  /\ Len(cs) = 2
            /\ cs[1].prompt = JoinedExplanations(state["files"])
            /\ cs[2].prompt = JoinedBusinessSummaries(state["files"])

IsPrefix(s, t) == Len(s) <= Len(t) /\ s = SubSeq(t, 1, Len(s))

Position(node) == Min({ k \in 1..Len(Order) : Order[k] = node })

\* C8: the nodes run in the order fetch_diff, split_by_file, process_files,
\* aggregate_summaries, each at most once and after its predecessor; a run
\* that does not abort ends after exactly these four, and a run that aborts
\* in a node runs no later node.
C8_LinearOrder ==
    /\ IsPrefix(executed, Order)
    /\ pc \in Nodes => Len(executed) = Position(pc) - 1 /\ error = "none"
    /\ pc \in {"END", "returned"} => executed = Order /\ error = "none"
    /\ pc = "aborted" =>
          /\ error \in Nodes
          /\ Len(executed) = Position(error)
    /\ pc \in Nodes \cup {"END", "returned", "aborted"}

C8_Witness == pc = "returned" /\ executed = Order /\ Len(state["files"]) >= 1

SameIdentity(f, g) ==
    /\ f.filename = g.filename
    /\ f.diff = g.diff
    /\ f.is_apex = g.is_apex

FramePreserved ==
    /\ DOMAIN state \subseteq DOMAIN state'
    /\ state'["pr_url"] = state["pr_url"]
    /\ Has("diff") => state'["diff"] = state["diff"]
    /\ Has("files") =>
          /\ Len(state'["files"]) = Len(state["files"])
          /\ \A k \in 1..Len(state["files"]) :
                SameIdentity(state'["files"][k], state["files"][k])
    /\ pc = "fetch_diff" => DOMAIN state' \subseteq DOMAIN state \cup {"diff"}
    /\ pc = "split_by_file" => DOMAIN state' \subseteq DOMAIN state \cup {"files"}
    /\ pc = "process_files" => DOMAIN state' = DOMAIN state
    /\ pc = "aggregate_summaries" =>
          /\ state'["files"] = state["files"]
          /\ DOMAIN state' \subseteq
                DOMAIN state \cup {"dev_summary", "business_summary"}

\* C9: every step keeps what earlier nodes wrote: pr_url, then diff, then
\* the length and order of files and each record's filename, diff and
\* is_apex; process_files changes the three result fields of the records
\* only, aggregate_summaries the state's dev_summary and business_summary
\* only.
C9_FramePreserved == [][FramePreserved]_vars

C9_Witness ==
    /\ pc = "returned"
    /\ Len(state["files"]) >= 2
    /\ state["files"][1].explanation # <<>>
    /\ state["dev_summary"] # <<>>

CallsFor(i, kind) ==
    { k \in 1..Len(calls) :
        calls[k].node = "process_files" /\ calls[k].file = i /\ calls[k].kind = kind }

====
